---- MODULE Spec2Model ----
(***************************************************************************)
(* State machine of src/App.tsx: the voice-conversation component.  The    *)
(* React state (useState), the refs (useRef) and the asynchronous          *)
(* callbacks registered with the live session are the state and the        *)
(* actions.  Every await of the source is a point where other callbacks    *)
(* may run, so a handler with an await is two actions: the part up to the  *)
(* await and the continuation.                                             *)
(***************************************************************************)
EXTENDS Integers, Sequences, FiniteSets, TLC

\* ---------------------------------------------------------------- bounds
\* start() attempts that obtain a device stream (each opens one session)
MaxSessions == 2
\* largest value of the output audio clock (AudioContext.currentTime)
MaxClock == 3
\* AudioDelta messages delivered in one run
MaxAudio == 2
\* largest duration of a decoded buffer
MaxDur == 2
\* longest transcript log
MaxLog == 3
\* clock values and AudioDelta messages of the lifecycle specification
MaxLifeClock == 1
MaxLifeAudio == 1
\* audio frames the capture callback of one script processor receives
MaxChunks == 2

\* ---------------------------------------------------------------- state
VARIABLES
    messages,              \* useState<Message[]>           (line 16)
    isListening,           \* useState<boolean>             (line 17)
    isProcessing,          \* useState<boolean>             (line 18)
    isSpeaking,            \* useState<boolean>             (line 19)
    error,                 \* useState<string | null>       (line 20)
    status,                \* useState<string>              (line 21)
    sessionPromiseRef,     \* 0 = null, else the session id (line 23)
    microphoneStreamRef,   \* 0 = null, else the stream id  (line 26)
    scriptProcessorRef,    \* 0 = null, else the node id    (line 27)
    mediaStreamSourceRef,  \* 0 = null, else the node id    (line 28)
    nextStartTimeRef,      \* the playback cursor           (line 29)
    speakingSourcesRef,    \* the set of started sources    (line 30)
    \* the environment the component talks to
    gumPending,            \* getUserMedia calls not yet settled
    nStarted,              \* streams/sessions created so far
    sessState,             \* session id -> state of its transport
    streamLive,            \* stream id -> its tracks are not stopped
    procConnected,         \* node id -> the script processor is connected
    closeAsked,            \* sessions on which close() was called
    clock,                 \* outputAudioContext.currentTime
    decoding,              \* onmessage calls suspended at await decodeAudioData
    endedQueue,            \* stopped sources whose 'ended' event is not yet dispatched
    nAudio,                \* AudioDelta messages delivered so far
    stopAwait,             \* sessions whose promise a suspended stop awaits
    \* history, read by the properties only
    lastOp,                \* the handler that ran last, when a property names it
    schedLog,              \* the sources started since the playback was last cleared
    cleared,               \* why the playback was last cleared ("no": never)
    clearedAt,             \* how many audio messages had arrived when it was cleared
    \* the outbound audio
    pendingSends,          \* session id -> chunks held by then() of its pending promise
    sentChunks,            \* session id -> chunks given to sendRealtimeInput, in order
    capturedLog            \* history: node id -> the chunks its callback produced

ctlVars == <<messages, isListening, isProcessing, isSpeaking, error, status,
             sessionPromiseRef, microphoneStreamRef, scriptProcessorRef,
             mediaStreamSourceRef, nextStartTimeRef, speakingSourcesRef>>
envVars == <<gumPending, nStarted, sessState, streamLive, procConnected, closeAsked,
             clock, decoding, endedQueue, nAudio, stopAwait>>
histVars == <<lastOp, schedLog, cleared, clearedAt>>
capVars == <<pendingSends, sentChunks, capturedLog>>
vars == <<ctlVars, envVars, histVars, capVars>>

Sessions == 1..MaxSessions
Sender == {"User", "AI"}

Max(a, b) == IF a >= b THEN a ELSE b

\* The value of isListening that the callbacks passed to ai.live.connect close
\* over: handleStartListening returns at once when its isListening is true, so
\* the closure that registers the callbacks always holds false; the same
\* render's handleStopListening (dependency [isListening]) holds false too.
closureIsListening == FALSE

\* The states of a transport: "pending" from connect() to onopen, "opened"
\* from onopen until connect() has returned the session (the promise is
\* resolved), then "open", "closing" and "closed"; "dead" when it failed
\* before it opened.  The session promise is settled once connect() has
\* returned.
Settled(ss, p) == ss[p] \in {"open", "closing", "closed"}

Init ==
    /\ messages = <<>>
    /\ isListening = FALSE
    /\ isProcessing = FALSE
    /\ isSpeaking = FALSE
    /\ error = "null"
    /\ status = "Connect to start conversation"
    /\ sessionPromiseRef = 0
    /\ microphoneStreamRef = 0
    /\ scriptProcessorRef = 0
    /\ mediaStreamSourceRef = 0
    /\ nextStartTimeRef = 0
    /\ speakingSourcesRef = {}
    /\ gumPending = 0
    /\ nStarted = 0
    /\ sessState = [i \in Sessions |-> "unused"]
    /\ streamLive = [i \in Sessions |-> FALSE]
    /\ procConnected = [i \in Sessions |-> FALSE]
    /\ closeAsked = {}
    /\ clock = 0
    /\ decoding = {}
    /\ endedQueue = {}
    /\ nAudio = 0
    /\ stopAwait = {}
    /\ lastOp = "other"
    /\ schedLog = <<>>
    /\ cleared = "no"
    /\ clearedAt = 0
    /\ pendingSends = [i \in Sessions |-> <<>>]
    /\ sentChunks = [i \in Sessions |-> <<>>]
    /\ capturedLog = [i \in Sessions |-> <<>>]

\* ------------------------------------------------- handleStopListening
\* session.close(): an open transport starts closing; closing twice changes
\* nothing.  A close() that throws leaves the transport as it was.
SessionClose(ss, p, throws) ==
    IF ~throws /\ ss[p] = "open" THEN [ss EXCEPT ![p] = "closing"] ELSE ss

\* Lines 59-81: the local teardown, everything after the try/finally.
Teardown ==
    /\ procConnected' = IF scriptProcessorRef # 0
                          THEN [procConnected EXCEPT ![scriptProcessorRef] = FALSE]
                          ELSE procConnected
    /\ scriptProcessorRef' = 0
    /\ mediaStreamSourceRef' = 0
    /\ streamLive' = IF microphoneStreamRef # 0
                       THEN [streamLive EXCEPT ![microphoneStreamRef] = FALSE]
                       ELSE streamLive
    /\ microphoneStreamRef' = 0
    /\ endedQueue' = endedQueue \cup {h.id : h \in speakingSourcesRef}
    /\ speakingSourcesRef' = {}
    /\ nextStartTimeRef' = 0
    /\ isListening' = FALSE
    /\ isProcessing' = FALSE
    /\ isSpeaking' = FALSE
    /\ status' = "Connect to start conversation"
    /\ schedLog' = <<>>
    /\ cleared' = "stop"
    /\ clearedAt' = nAudio

\* Lines 48-57 once the awaited promise p is settled (p = 0: the ref was null),
\* then the teardown.  ss is the transport state the call finds.
CloseAndTeardown(ss, p) ==
    /\ \E throws \in BOOLEAN :
          sessState' = IF p # 0 THEN SessionClose(ss, p, throws) ELSE ss
    /\ closeAsked' = IF p # 0 THEN closeAsked \cup {p} ELSE closeAsked
    /\ sessionPromiseRef' = IF p # 0 THEN 0 ELSE sessionPromiseRef
    /\ Teardown

\* Line 46: the early return; nothing is touched.
StopNoop(ss) ==
    /\ sessState' = ss
    /\ UNCHANGED <<isListening, isProcessing, isSpeaking, status, sessionPromiseRef,
                   microphoneStreamRef, scriptProcessorRef, mediaStreamSourceRef,
                   nextStartTimeRef, speakingSourcesRef, streamLive, procConnected,
                   closeAsked, endedQueue, stopAwait, schedLog, cleared, clearedAt>>

\* Lines 48-81: the body after the guard.  An unsettled promise suspends the
\* call at line 50; StopResume is its continuation.
StopBody(ss) ==
    IF sessionPromiseRef # 0 /\ ~Settled(ss, sessionPromiseRef)
      THEN /\ stopAwait' = stopAwait \cup {sessionPromiseRef}
           /\ sessState' = ss
           /\ UNCHANGED <<isListening, isProcessing, isSpeaking, status,
                          sessionPromiseRef, microphoneStreamRef, scriptProcessorRef,
                          mediaStreamSourceRef, nextStartTimeRef, speakingSourcesRef,
                          streamLive, procConnected, closeAsked, endedQueue,
                          schedLog, cleared, clearedAt>>
      ELSE /\ CloseAndTeardown(ss, sessionPromiseRef)
           /\ UNCHANGED stopAwait

\* A handleStopListening without the guard of line 46.
handleStopListening_Unguarded(cl, ss) == StopBody(ss)

\* Lines 45-82: handleStopListening as created by a render whose isListening
\* is cl.  It leaves messages, error and the environment's own variables to
\* its caller.
handleStopListening(cl, ss) ==
    IF ~cl THEN StopNoop(ss) ELSE StopBody(ss)

\* The continuation of a stop suspended at line 50, once promise p settles.
StopResume(p) ==
    /\ p \in stopAwait
    /\ Settled(sessState, p)
    /\ stopAwait' = stopAwait \ {p}
    /\ lastOp' = "stop"
    /\ closeAsked' = closeAsked \cup {p}
    /\ \E throws \in BOOLEAN : sessState' = SessionClose(sessState, p, throws)
    /\ sessionPromiseRef' = 0
    /\ Teardown
    /\ UNCHANGED <<messages, error, gumPending, nStarted, clock, decoding, nAudio,
                   capVars>>

\* ------------------------------------------------- handleStartListening
\* Lines 99-105: the guard, setError(null), setStatus, and the getUserMedia call.
StartBegin ==
    /\ gumPending + nStarted < MaxSessions
    /\ error' = "null"
    /\ status' = "Initializing..."
    /\ gumPending' = gumPending + 1
    /\ lastOp' = "start"
    /\ UNCHANGED <<messages, isListening, isProcessing, isSpeaking, sessionPromiseRef,
                   microphoneStreamRef, scriptProcessorRef, mediaStreamSourceRef,
                   nextStartTimeRef, speakingSourcesRef, nStarted, sessState, streamLive,
                   procConnected, closeAsked, clock, decoding, endedQueue, nAudio,
                   stopAwait, schedLog, cleared, clearedAt, capVars>>

\* Line 266: the toggle button runs the handler of the current render.
ClickToggle ==
    IF isListening
      THEN /\ lastOp' = IF sessionPromiseRef # 0 /\ ~Settled(sessState, sessionPromiseRef)
                         THEN "stopAwait" ELSE "stop"
           /\ handleStopListening(TRUE, sessState)
           /\ UNCHANGED <<messages, error, gumPending, nStarted, clock, decoding, nAudio,
                          capVars>>
      ELSE StartBegin

\* Lines 105-226: getUserMedia resolved; the stream and the audio contexts are
\* stored and ai.live.connect returns the promise of a new session.
GumResolve ==
    /\ gumPending > 0
    /\ gumPending' = gumPending - 1
    /\ nStarted' = nStarted + 1
    /\ streamLive' = [streamLive EXCEPT ![nStarted + 1] = TRUE]
    /\ microphoneStreamRef' = nStarted + 1
    /\ clock' = 0
    /\ sessState' = [sessState EXCEPT ![nStarted + 1] = "pending"]
    /\ sessionPromiseRef' = nStarted + 1
    /\ lastOp' = "other"
    /\ UNCHANGED <<messages, isListening, isProcessing, isSpeaking, error, status,
                   scriptProcessorRef, mediaStreamSourceRef, nextStartTimeRef,
                   speakingSourcesRef, procConnected, closeAsked, decoding, endedQueue,
                   nAudio, stopAwait, schedLog, cleared, clearedAt, capVars>>

\* A catch block that sets the error but not the status.
GumReject_NoStatus ==
    /\ gumPending > 0
    /\ gumPending' = gumPending - 1
    /\ error' = "Failed to get microphone permissions. Please allow microphone access."
    /\ lastOp' = "gumReject"
    /\ UNCHANGED <<messages, isListening, isProcessing, isSpeaking, sessionPromiseRef,
                   microphoneStreamRef, scriptProcessorRef, mediaStreamSourceRef,
                   nextStartTimeRef, speakingSourcesRef, nStarted, sessState, streamLive,
                   procConnected, closeAsked, clock, decoding, endedQueue, nAudio,
                   stopAwait, schedLog, cleared, clearedAt, status, capVars>>

\* Lines 227-231: getUserMedia rejected.
GumReject ==
    /\ gumPending > 0
    /\ gumPending' = gumPending - 1
    /\ error' = "Failed to get microphone permissions. Please allow microphone access."
    /\ status' = "Mic permission denied"
    /\ lastOp' = "gumReject"
    /\ UNCHANGED <<messages, isListening, isProcessing, isSpeaking, sessionPromiseRef,
                   microphoneStreamRef, scriptProcessorRef, mediaStreamSourceRef,
                   nextStartTimeRef, speakingSourcesRef, nStarted, sessState, streamLive,
                   procConnected, closeAsked, clock, decoding, endedQueue, nAudio,
                   stopAwait, schedLog, cleared, clearedAt, capVars>>

\* Lines 117-137: onopen of session i.
OnOpen(i) ==
    /\ sessState[i] = "pending"
    /\ sessState' = [sessState EXCEPT ![i] = "opened"]
    /\ isListening' = TRUE
    /\ status' = "Listening..."
    /\ mediaStreamSourceRef' = i
    /\ scriptProcessorRef' = i
    /\ procConnected' = [procConnected EXCEPT ![i] = TRUE]
    /\ lastOp' = "other"
    /\ UNCHANGED <<messages, isProcessing, isSpeaking, error, sessionPromiseRef,
                   microphoneStreamRef, nextStartTimeRef, speakingSourcesRef, gumPending,
                   nStarted, streamLive, closeAsked, clock, decoding, endedQueue, nAudio,
                   stopAwait, schedLog, cleared, clearedAt, capVars>>

\* A resolution of the session promise that forgets the chunks waiting on it.
ConnectReturn_Drops(i) ==
    /\ sessState[i] = "opened"
    /\ sessState' = [sessState EXCEPT ![i] = "open"]
    /\ pendingSends' = [pendingSends EXCEPT ![i] = <<>>]
    /\ lastOp' = "other"
    /\ UNCHANGED <<ctlVars, gumPending, nStarted, streamLive, procConnected, closeAsked,
                   clock, decoding, endedQueue, nAudio, stopAwait, schedLog, cleared,
                   clearedAt, sentChunks, capturedLog>>

\* Lines 114 and 131-133: connect() returns the session of transport i, the
\* promise resolves, and the then() callbacks registered on it so far run in
\* the order of their registration: each sends its chunk.
ConnectReturn(i) ==
    /\ sessState[i] = "opened"
    /\ sessState' = [sessState EXCEPT ![i] = "open"]
    /\ sentChunks' = [sentChunks EXCEPT ![i] = sentChunks[i] \o pendingSends[i]]
    /\ pendingSends' = [pendingSends EXCEPT ![i] = <<>>]
    /\ lastOp' = "other"
    /\ UNCHANGED <<ctlVars, gumPending, nStarted, streamLive, procConnected, closeAsked,
                   clock, decoding, endedQueue, nAudio, stopAwait, schedLog, cleared,
                   clearedAt, capturedLog>>

\* The chunk made from frame n of a node whose transport is in state st.
Chunk(n, st) == [n |-> n, at |-> st]

\* Lines 127-134: onaudioprocess of script processor i, which fires while the
\* node is connected.  then() on the pending promise holds the callback until
\* the promise resolves; on the resolved promise it runs at once, and the
\* send reaches the transport if it is open.
Capture(i) ==
    /\ procConnected[i]
    /\ Len(capturedLog[i]) < MaxChunks
    /\ LET c == Chunk(Len(capturedLog[i]) + 1, sessState[i]) IN
         /\ capturedLog' = [capturedLog EXCEPT ![i] = Append(@, c)]
         /\ pendingSends' = IF sessState[i] = "opened"
                              THEN [pendingSends EXCEPT ![i] = Append(@, c)]
                              ELSE pendingSends
         /\ sentChunks' = IF sessState[i] = "open"
                            THEN [sentChunks EXCEPT ![i] = Append(@, c)]
                            ELSE sentChunks
    /\ lastOp' = "other"
    /\ UNCHANGED <<ctlVars, envVars, schedLog, cleared, clearedAt>>

\* ------------------------------------------------------------ onmessage
\* An updater that merges into the last message whoever its sender is.
TranscriptUpdater_NoSenderCheck(prev, sender, text, isFinal) ==
    IF Len(prev) > 0 /\ ~isFinal
      THEN SubSeq(prev, 1, Len(prev) - 1)
             \o <<[prev[Len(prev)] EXCEPT !.text = text]>>
      ELSE Append(prev, [sender |-> sender, text |-> text, isFinal |-> isFinal])

\* An updater that never merges.
TranscriptUpdater_AlwaysAppend(prev, sender, text, isFinal) ==
    Append(prev, [sender |-> sender, text |-> text, isFinal |-> isFinal])

\* An updater whose merge writes the incoming isFinal as well as the text.
TranscriptUpdater_SetsFinal(prev, sender, text, isFinal) ==
    IF Len(prev) > 0 /\ prev[Len(prev)].sender = sender /\ ~isFinal
      THEN SubSeq(prev, 1, Len(prev) - 1)
             \o <<[prev[Len(prev)] EXCEPT !.text = text, !.isFinal = isFinal]>>
      ELSE Append(prev, [sender |-> sender, text |-> text, isFinal |-> isFinal])

\* Lines 187-193 and 196-202: the updater given to setMessages; the two sites
\* differ in the sender only.
TranscriptUpdater(prev, sender, text, isFinal) ==
    IF Len(prev) > 0 /\ prev[Len(prev)].sender = sender /\ ~isFinal
      THEN SubSeq(prev, 1, Len(prev) - 1)
             \o <<[prev[Len(prev)] EXCEPT !.text = text]>>
      ELSE Append(prev, [sender |-> sender, text |-> text, isFinal |-> isFinal])

\* A LiveServerMessage, by the fields the handler reads: audio is the duration
\* of the inline audio (0: none), kind the transcript or turn field present.
Msg(a, int, k, t, f) ==
    [audio |-> a, interrupted |-> int, kind |-> k, text |-> t, isFinal |-> f]
AudioMsgs == {Msg(d, FALSE, "none", "", FALSE) : d \in 1..MaxDur}
InterruptedMsg == Msg(0, TRUE, "none", "", FALSE)
TurnCompleteMsg == Msg(0, FALSE, "turnComplete", "", FALSE)
TranscriptMsgs(texts) ==
    {Msg(0, FALSE, k, t, f) : k \in {"input", "output"}, t \in texts, f \in BOOLEAN}

\* Lines 158-164: the 'ended' listener, after the delete left srcs.
EndedListener(srcs) ==
    /\ speakingSourcesRef' = srcs
    /\ isSpeaking' = IF srcs = {} THEN FALSE ELSE isSpeaking
    /\ status' = IF srcs = {}
                   THEN (IF closureIsListening THEN "Listening..." ELSE "Paused")
                   ELSE status

\* Lines 172-203: the handler from the interrupted check on.  srcs, cur and
\* log are the playback state, proc and st the flags, as the part of the
\* handler before left them.
HandlerTail(m, srcs, cur, log, proc, st) ==
    /\ speakingSourcesRef' = IF m.interrupted THEN {} ELSE srcs
    /\ endedQueue' = IF m.interrupted
                       THEN endedQueue \cup {h.id : h \in srcs}
                       ELSE endedQueue
    /\ nextStartTimeRef' = IF m.interrupted THEN 0 ELSE cur
    /\ schedLog' = IF m.interrupted THEN <<>> ELSE log
    /\ cleared' = IF m.interrupted THEN "interrupt" ELSE cleared
    /\ clearedAt' = IF m.interrupted THEN nAudio ELSE clearedAt
    /\ isProcessing' = CASE m.kind = "turnComplete" -> FALSE
                         [] m.kind = "input" -> TRUE
                         [] OTHER -> proc
    /\ status' = CASE m.kind = "turnComplete" ->
                        (IF closureIsListening THEN "Listening..." ELSE "Paused")
                   [] m.kind = "input" -> "Processing..."
                   [] OTHER -> st
    /\ messages' = CASE m.kind = "input" ->
                          TranscriptUpdater(messages, "User", m.text, m.isFinal)
                     [] m.kind = "output" ->
                          TranscriptUpdater(messages, "AI", m.text, m.isFinal)
                     [] OTHER -> messages

\* The log the update of m yields stays within MaxLog.
LogRoom(m) ==
    CASE m.kind = "input" ->
           Len(TranscriptUpdater(messages, "User", m.text, m.isFinal)) <= MaxLog
      [] m.kind = "output" ->
           Len(TranscriptUpdater(messages, "AI", m.text, m.isFinal)) <= MaxLog
      [] OTHER -> TRUE

\* What the handler did for m, kept as history: it cleared the playback, it
\* updated the last message of the log in place, or neither.
OpOf(m) ==
    CASE m.interrupted -> "interrupted"
      [] m.kind = "input" /\ Len(messages) > 0
           /\ Len(TranscriptUpdater(messages, "User", m.text, m.isFinal)) = Len(messages)
           -> "merged"
      [] m.kind = "output" /\ Len(messages) > 0
           /\ Len(TranscriptUpdater(messages, "AI", m.text, m.isFinal)) = Len(messages)
           -> "merged"
      [] OTHER -> "other"

\* Lines 138-203: onmessage of session i for message m.  With inline audio the
\* handler runs to the await of decodeAudioData (line 147) and is suspended.
OnMessage(i, m) ==
    /\ sessState[i] = "open"
    /\ LogRoom(m)
    /\ lastOp' = OpOf(m)
    /\ IF m.audio > 0
         THEN /\ nAudio < MaxAudio
              /\ nAudio' = nAudio + 1
              /\ isProcessing' = FALSE
              /\ isSpeaking' = TRUE
              /\ nextStartTimeRef' = Max(nextStartTimeRef, clock)
              /\ decoding' = decoding \cup
                               {[id |-> nAudio + 1, msg |-> m, arrived |-> clock]}
              /\ UNCHANGED <<messages, status, speakingSourcesRef, endedQueue,
                             schedLog, cleared, clearedAt, capVars>>
         ELSE /\ HandlerTail(m, speakingSourcesRef, nextStartTimeRef, schedLog,
                             FALSE, status)
              /\ UNCHANGED <<isSpeaking, decoding, nAudio>>
    /\ UNCHANGED <<isListening, error, sessionPromiseRef, microphoneStreamRef,
                   scriptProcessorRef, mediaStreamSourceRef, gumPending, nStarted,
                   sessState, streamLive, procConnected, closeAsked, clock, stopAwait,
                   capVars>>

\* The source started at line 166 for the suspended call d: when is the time
\* given to source.start, now the clock at that call, arrived the clock when
\* the message arrived, after the clearing that this start is the first to
\* follow ("no": it follows another start, or nothing was ever cleared).
StartedSource(d) ==
    [id |-> d.id, when |-> nextStartTimeRef, now |-> clock, dur |-> d.msg.audio,
     arrived |-> d.arrived, after |-> IF schedLog = <<>> THEN cleared ELSE "no"]

\* Lines 154-203: decodeAudioData resolved for the suspended call d.
DecodeDone(d) ==
    /\ d \in decoding
    /\ decoding' = decoding \ {d}
    /\ lastOp' = IF d.msg.interrupted THEN "interrupted" ELSE "other"
    /\ HandlerTail(d.msg, speakingSourcesRef \cup {StartedSource(d)},
                   nextStartTimeRef + d.msg.audio,
                   Append(schedLog, StartedSource(d)), isProcessing, status)
    /\ UNCHANGED <<isListening, isSpeaking, error, sessionPromiseRef,
                   microphoneStreamRef, scriptProcessorRef, mediaStreamSourceRef,
                   gumPending, nStarted, sessState, streamLive, procConnected,
                   closeAsked, clock, nAudio, stopAwait, capVars>>

\* Line 147: decodeAudioData rejected; the rest of the handler does not run.
DecodeFail(d) ==
    /\ d \in decoding
    /\ decoding' = decoding \ {d}
    /\ lastOp' = "other"
    /\ UNCHANGED <<ctlVars, gumPending, nStarted, sessState, streamLive, procConnected,
                   closeAsked, clock, endedQueue, nAudio, stopAwait, schedLog, cleared,
                   clearedAt, capVars>>

\* A source started with a time already past begins at once.
PlayBegin(h) == Max(h.when, h.now)
PlayEnd(h) == PlayBegin(h) + h.dur

\* Lines 158-164: 'ended' of a source that played to its end.
Ended(h) ==
    /\ h \in speakingSourcesRef
    /\ clock >= PlayEnd(h)
    /\ EndedListener(speakingSourcesRef \ {h})
    /\ lastOp' = "other"
    /\ UNCHANGED <<messages, isListening, isProcessing, error, sessionPromiseRef,
                   microphoneStreamRef, scriptProcessorRef, mediaStreamSourceRef,
                   nextStartTimeRef, envVars, schedLog, cleared, clearedAt, capVars>>

\* Lines 158-164: 'ended' of a source stopped by source.stop() (lines 74, 174);
\* the source has left the set already, so the delete removes nothing.
EndedStopped(id) ==
    /\ id \in endedQueue
    /\ endedQueue' = endedQueue \ {id}
    /\ EndedListener(speakingSourcesRef)
    /\ lastOp' = "other"
    /\ UNCHANGED <<messages, isListening, isProcessing, error, sessionPromiseRef,
                   microphoneStreamRef, scriptProcessorRef, mediaStreamSourceRef,
                   nextStartTimeRef, gumPending, nStarted, sessState, streamLive,
                   procConnected, closeAsked, clock, decoding, nAudio, stopAwait,
                   schedLog, cleared, clearedAt, capVars>>

\* The clock of the output audio context (line 109) advances.
Tick ==
    /\ nStarted > 0
    /\ clock < MaxClock
    /\ clock' = clock + 1
    /\ lastOp' = "other"
    /\ UNCHANGED <<ctlVars, gumPending, nStarted, sessState, streamLive, procConnected,
                   closeAsked, decoding, endedQueue, nAudio, stopAwait, schedLog, cleared,
                   clearedAt, capVars>>

\* ------------------------------------------------------ onerror, onclose
\* The transport after an error or close event: a session that never opened
\* is dead (its promise never settles).
AfterError(i) ==
    [sessState EXCEPT ![i] = IF sessState[i] = "pending" THEN "dead" ELSE "closing"]
AfterClose(i) ==
    [sessState EXCEPT ![i] = IF sessState[i] = "pending" THEN "dead" ELSE "closed"]

\* Lines 206-210: onerror of session i.
OnError(i) ==
    /\ sessState[i] \in {"pending", "open"}
    /\ error' = "An error occurred"
    /\ lastOp' = "onerror"
    /\ handleStopListening(closureIsListening, AfterError(i))
    /\ UNCHANGED <<messages, gumPending, nStarted, clock, decoding, nAudio,
                   capVars>>

\* Lines 212-214: onclose of session i.
OnClose(i) ==
    /\ sessState[i] \in {"pending", "open", "closing"}
    /\ lastOp' = "onclose"
    /\ handleStopListening(closureIsListening, AfterClose(i))
    /\ UNCHANGED <<messages, error, gumPending, nStarted, clock, decoding, nAudio,
                   capVars>>

\* --------------------------------------------------------- specifications
\* The controller's lifecycle with every handler: the user clicks the toggle
\* at any time, the transport opens, fails and closes, and the session
\* delivers one message of each kind.
LifecycleMsgs ==
    {Msg(1, FALSE, "none", "", FALSE), InterruptedMsg, TurnCompleteMsg,
     Msg(0, FALSE, "input", "hi", FALSE)}

Lifecycle ==
    \/ ClickToggle
    \/ GumResolve
    \/ GumReject
    \/ \E i \in Sessions : OnOpen(i)
    \/ \E i \in Sessions : ConnectReturn(i)
    \/ \E p \in Sessions : StopResume(p)
    \/ \E i \in Sessions : OnError(i)
    \/ \E i \in Sessions : OnClose(i)

Playback ==
    \/ \E d \in decoding : DecodeDone(d)
    \/ \E d \in decoding : DecodeFail(d)
    \/ \E h \in speakingSourcesRef : Ended(h)
    \/ \E id \in endedQueue : EndedStopped(id)

\* The clock and the audio messages of the lifecycle specification.
LifeTick == clock < MaxLifeClock /\ Tick
LifeMessage(i, m) == (m.audio > 0 => nAudio < MaxLifeAudio) /\ OnMessage(i, m)

Next ==
    \/ Lifecycle
    \/ Playback
    \/ LifeTick
    \/ \E i \in Sessions, m \in LifecycleMsgs : LifeMessage(i, m)

Spec == Init /\ [][Next]_vars

\* One conversation: the user clicks the toggle once and the session opens.
FirstStart == gumPending + nStarted = 0 /\ ClickToggle
Connect ==
    \/ FirstStart
    \/ GumResolve
    \/ OnOpen(1)
    \/ ConnectReturn(1)

\* The playback scheduler under audio and interruption messages, decode
\* completions and clock advance in any order.
NextPlayback ==
    \/ Connect
    \/ Playback
    \/ Tick
    \/ \E m \in AudioMsgs \cup {InterruptedMsg} : OnMessage(1, m)

SpecPlayback == Init /\ [][NextPlayback]_vars

\* The transcript log under any sequence of transcript updates.
Texts == {"hel", "hello", "hello there", "hi", "again"}

NextTranscript ==
    \/ Connect
    \/ \E m \in TranscriptMsgs(Texts) \cup {TurnCompleteMsg} : OnMessage(1, m)

SpecTranscript == Init /\ [][NextTranscript]_vars

\* The capture pipeline: the lifecycle's handlers and the audio frames the
\* connected script processors receive.
NextCapture ==
    \/ Lifecycle
    \/ \E i \in Sessions : Capture(i)

SpecCapture == Init /\ [][NextCapture]_vars

\* ------------------------------------------------------------ properties
SenderOf(m) == IF m.kind = "input" THEN "User" ELSE "AI"
Last(log) == log[Len(log)]

\* C1: when the last message of the log has the speaker of the incoming
\* update and is not final, the update leaves the length of the log unchanged,
\* replaces the text of that message and sets its isFinal to the incoming one.
C1_MergeRule ==
    [][\A m \in TranscriptMsgs(Texts) :
          (/\ OnMessage(1, m)
           /\ Len(messages) > 0
           /\ Last(messages).sender = SenderOf(m)
           /\ ~Last(messages).isFinal)
          => /\ Len(messages') = Len(messages)
             /\ Last(messages').text = m.text
             /\ Last(messages').isFinal = m.isFinal]_vars

\* C2: a final message is closed: no later update changes its text (a later
\* update of the same speaker is appended instead).
C2_FinalCloses ==
    [][\A k \in 1..Len(messages) :
          messages[k].isFinal
          => /\ Len(messages') >= k
             /\ messages'[k] = messages[k]]_vars

\* The controller's state as the spec names it: Listening once a transport has
\* opened, Initializing while a start is under way, Idle otherwise.
Initializing ==
    ~isListening /\ (gumPending > 0 \/ \E i \in Sessions : sessState[i] = "pending")
Idle == ~isListening /\ ~Initializing
DeviceReleased == \A i \in Sessions : ~streamLive[i]
CaptureStopped == \A i \in Sessions : ~procConnected[i]
PlaybackCleared == speakingSourcesRef = {} /\ nextStartTimeRef = 0
\* One conversation only: one start, its session i the only one there is.
OnlySession(i) == nStarted = 1 /\ gumPending = 0 /\ i = 1

\* C3: an Error or Closed event delivered while the controller is Listening
\* tears down as stop() does: capture stopped, device released, playback
\* cleared with the cursor at 0, and the controller Idle.
C3_ErrorClosedTeardown ==
    [][(/\ OnlySession(1)
        /\ isListening
        /\ sessState[1] = "open"
        /\ lastOp' \in {"onerror", "onclose"})
       => (Idle /\ CaptureStopped /\ DeviceReleased /\ PlaybackCleared)']_vars

\* C4: handleStopListening invoked while Initializing (device acquired, the
\* transport still pending) releases the input device and leaves the
\* controller Idle.  While Initializing the toggle offers start, so the
\* invocations are those of onerror and onclose.
C4_StopWhileInitializing ==
    [][(/\ OnlySession(1)
        /\ ~isListening
        /\ sessState[1] = "pending"
        /\ streamLive[1]
        /\ lastOp' \in {"stop", "onerror", "onclose"})
       => (Idle /\ DeviceReleased)']_vars

\* C5: at every moment at most one transport session is open or pending and
\* at most one input-device stream is held.
C5_SingleSession ==
    /\ Cardinality({i \in Sessions : sessState[i] \in {"pending", "opened", "open"}}) <= 1
    /\ Cardinality({i \in Sessions : streamLive[i]}) <= 1

\* C9: when a stop() invoked in Listening has completed, the controller is
\* Idle with both flags false, the playback is cleared, the capture pipeline
\* is disconnected, the device is released and every open transport session
\* has been asked to close.
C9_StopPostcondition ==
    lastOp = "stop"
    => /\ Idle
       /\ ~isProcessing /\ ~isSpeaking
       /\ PlaybackCleared
       /\ CaptureStopped
       /\ DeviceReleased
       /\ \A i \in Sessions : sessState[i] = "open" => i \in closeAsked

\* C10: handleStopListening invoked when the controller is Idle changes no
\* state variable and performs no teardown side effect (no session is asked
\* to close, no device track is stopped, no node is disconnected).  When Idle
\* the invocations are those of onerror and onclose; onerror also sets error.
C10_StopIdleNoop ==
    [][(Idle /\ lastOp' \in {"onerror", "onclose"})
       => /\ UNCHANGED <<messages, isListening, isProcessing, isSpeaking, status,
                         sessionPromiseRef, microphoneStreamRef, scriptProcessorRef,
                         mediaStreamSourceRef, nextStartTimeRef, speakingSourcesRef>>
          /\ UNCHANGED <<closeAsked, streamLive, procConnected, endedQueue>>
          /\ (lastOp' = "onclose" => UNCHANGED error)]_vars

\* C10 witness: after a completed stop the closed transport delivered onclose,
\* whose handleStopListening ran with the controller Idle.
C10_Witness ==
    /\ lastOp = "onclose"
    /\ OnlySession(1)
    /\ sessState[1] = "closed"
    /\ closeAsked = {1}
    /\ cleared = "stop"
    /\ Idle

\* The interval in which source h is heard.
Disjoint(h1, h2) == PlayEnd(h1) <= PlayBegin(h2) \/ PlayEnd(h2) <= PlayBegin(h1)

\* C6: with no interruption, the playback intervals of any two scheduled
\* buffers are disjoint.
C6_NoOverlap ==
    cleared = "no"
    => \A h1, h2 \in speakingSourcesRef : h1 # h2 => Disjoint(h1, h2)

RECURSIVE SumDur(_, _)
\* The sum of the durations of the first n sources of the log.
SumDur(log, n) == IF n = 0 THEN 0 ELSE SumDur(log, n - 1) + log[n].dur

\* The frames were started in arrival order, none missing, and each arrived
\* before its predicted start time, the first one no later than t0.
ArrivedInTime(log, t0) ==
    \A k \in 1..Len(log) :
        /\ log[k].id = k
        /\ IF k = 1 THEN log[k].arrived <= t0
                    ELSE log[k].arrived < t0 + SumDur(log, k - 1)
BackToBack(log, t0) ==
    \A k \in 1..Len(log) : log[k].when = t0 + SumDur(log, k - 1)

\* C7: with no interruption and every frame arriving before its predicted
\* start time, the k-th frame starts at the clock time of the first enqueue
\* plus the sum of the first k-1 durations.  The clock time of the first
\* enqueue is read either as the time the first frame arrived or as the time
\* it was started: the claim is taken to hold if it holds under one of them.
\* It is stated of the moments when every frame that arrived has been started.
C7_SchedulerOrdering ==
    (cleared = "no" /\ schedLog # <<>> /\ Len(schedLog) = nAudio)
    => \/ (ArrivedInTime(schedLog, schedLog[1].arrived)
             => BackToBack(schedLog, schedLog[1].arrived))
       \/ (ArrivedInTime(schedLog, schedLog[1].now)
             => BackToBack(schedLog, schedLog[1].now))

\* C8: after an Interrupted event is handled the active set is empty and the
\* cursor is 0, and the next source started after it starts at the current
\* clock time (max(0, clock)), the clock being read when its frame arrived or
\* when it is started.
C8_Interruption ==
    /\ lastOp = "interrupted" => PlaybackCleared
    /\ \A h \in speakingSourcesRef :
          h.after = "interrupt" => (h.when = h.arrived \/ h.when = h.now)

\* C11 as claimed: when the acquisition of the input device fails, the start
\* attempt (the only one under way) has not entered the Initializing status.
C11_NeverInitializing ==
    [][(gumPending = 1 /\ nStarted = 0 /\ lastOp' = "gumReject")
       => status # "Initializing..."]_vars

\* C11 as amended: start() shows the Initializing status at once, before the
\* device is acquired; when the acquisition fails it surfaces the
\* permission-denied status and error, and that step opens no transport
\* session, acquires no stream and does not enter Listening.
C11_PermissionDenied ==
    [][/\ lastOp' = "start" => status' = "Initializing..."
       /\ lastOp' = "gumReject"
          => /\ status' = "Mic permission denied"
             /\ error' = "Failed to get microphone permissions. Please allow microphone access."
             /\ UNCHANGED <<isListening, sessState, nStarted, sessionPromiseRef,
                            microphoneStreamRef, streamLive>>]_vars

\* C11 witness: the only start attempt failed: no session, no stream.
C11_Witness ==
    /\ lastOp = "gumReject"
    /\ status = "Mic permission denied"
    /\ gumPending = 0 /\ nStarted = 0
    /\ ~isListening

\* C12: once every handler and callback under way has run to its end (no decode
\* pending, no completion of a stopped source pending), isSpeaking is true
\* exactly when the set of active sources is non-empty.
C12_SpeakingProjection ==
    (decoding = {} /\ endedQueue = {})
        => (isSpeaking <=> speakingSourcesRef # {})

\* C13: once an input transcript update has set isProcessing, an output
\* transcript update that follows leaves it set (it is cleared only by
\* TurnComplete or by teardown).
C13_ProcessingUntilTurnComplete ==
    [][\A m \in TranscriptMsgs(Texts) :
          (isProcessing /\ m.kind = "output" /\ OnMessage(1, m)) => isProcessing']_vars

\* C14: when the log is empty or its last message has another speaker than
\* the incoming update, the update appends exactly one message {speaker, text,
\* isFinal} and leaves every existing message as it was, whatever the
\* incoming isFinal.
C14_InterleavedAppend ==
    [][\A m \in TranscriptMsgs(Texts) :
          (/\ OnMessage(1, m)
           /\ (Len(messages) = 0 \/ Last(messages).sender # SenderOf(m)))
          => messages' = Append(messages, [sender |-> SenderOf(m), text |-> m.text,
                                           isFinal |-> m.isFinal])]_vars

\* C14 witness: User, AI, User interleaved, the AI message still open when
\* the second User message was appended.
C14_Witness ==
    /\ Len(messages) = 3
    /\ messages[1].sender = "User" /\ messages[2].sender = "AI"
    /\ messages[3].sender = "User"
    /\ ~messages[2].isFinal /\ ~messages[3].isFinal

\* C17: the log never holds two consecutive messages of one speaker that are
\* both non-final.
C17_OneOpenPerSpeaker ==
    \A k \in 1..(Len(messages) - 1) :
        ~(/\ messages[k].sender = messages[k + 1].sender
          /\ ~messages[k].isFinal
          /\ ~messages[k + 1].isFinal)

\* C17 witness: two consecutive messages of one speaker, the first open and
\* the second appended by a final update, and the last update was a merge.
C17_Witness ==
    /\ lastOp = "merged"
    /\ \E k \in 1..(Len(messages) - 1) :
          /\ messages[k].sender = messages[k + 1].sender
          /\ ~messages[k].isFinal
          /\ messages[k + 1].isFinal

\* C20: no step changes the isFinal of a message the log already holds.
C20_IsFinalFixed ==
    [][\A k \in 1..Len(messages) :
          /\ Len(messages') >= k
          /\ messages'[k].isFinal = messages[k].isFinal]_vars

\* C20 witness: a non-final update was merged into a last message that was
\* appended as final, and the message is final still.
C20_Witness ==
    /\ lastOp = "merged"
    /\ Len(messages) > 0
    /\ Last(messages).isFinal
    /\ Last(messages).text = "again"

\* C16: every source in the set of active sources was started with a time
\* at or after the clock at the moment it was started and added.
C16_StartNotInPast ==
    \A h \in speakingSourcesRef : h.when >= h.now

\* C19: the status "Paused" is never shown while the controller is listening.
C19_PausedOnlyWhenNotListening ==
    isListening => status # "Paused"

\* C18: every source in the set of active sources comes from an audio message
\* that arrived after the playback was last cleared by an interruption or a
\* stop.
C18_NoStaleAudio ==
    \A h \in speakingSourcesRef : h.id > clearedAt

WhileOpen(c) == c.at \in {"opened", "open"}

====
